---- MODULE Spec2Model ----
(***************************************************************************)
(* Model of supabase/functions/vector-search/index.ts: the Deno.serve      *)
(* request handler (moderation gate, embedding, similarity search, token   *)
(* budgeted context assembly, prompt, streamed completion, error boundary).*)
(*                                                                         *)
(* Strings are sequences of one-character strings.  A JavaScript null     *)
(* string is the one-element sequence NullString, whose element is not a   *)
(* character.  Every handler local is a function of the request id, so     *)
(* that several invocations of the handler can be in flight at once.       *)
(* An action is the code the handler runs between two awaits, the catch    *)
(* block included when that code throws.                                   *)
(***************************************************************************)
EXTENDS Integers, Sequences, FiniteSets, TLC

\* ------------------------------------------------------------------ bounds
MaxQueryLen == 3
MaxSections == 3

\* --------------------------------------------------------------- strings
\* characters of a request's query; the space enters with normalisation
QueryChars == {"a", "\n"}
Whitespace == {" ", "\n"}
NullString == <<"null">>

StringsUpTo(n) == UNION {[1..k -> QueryChars] : k \in 0..n}

RECURSIVE trimStart(_)
trimStart(s) ==
  IF s = <<>> THEN <<>>
  ELSE IF Head(s) \in Whitespace THEN trimStart(Tail(s)) ELSE s

RECURSIVE trimEnd(_)
trimEnd(s) ==
  IF s = <<>> THEN <<>>
  ELSE IF s[Len(s)] \in Whitespace THEN trimEnd(SubSeq(s, 1, Len(s) - 1)) ELSE s

\* String.prototype.trim
trim(s) == trimEnd(trimStart(s))

\* String.prototype.replaceAll("\n", " ")
replaceAllNewlines(s) == [i \in 1..Len(s) |-> IF s[i] = "\n" THEN " " ELSE s[i]]

\* faulty variant of sanitize: the newline replacement is forgotten
sanitizeTrimOnly(q) == trim(q)

\* line 52: query.trim().replaceAll("\n", " ")
sanitize(q) == replaceAllNewlines(trim(q))

\* ------------------------------------------------------------ constants
TokenCap == 1500
StatusOK == 200
StatusUserError == 400
StatusServerError == 500

MissingQueryMessage == "Missing query in request data"
FlaggedMessage == "Flagged content"
EmbeddingFailedMessage == "Failed to create embedding for question"
MatchFailedMessage == "Failed to match page sections"
CompletionFailedMessage == "Failed to generate completion"
GenericErrorMessage == "There was an error processing your request"

\* lines 11-14
corsHeaders ==
  ("Access-Control-Allow-Origin" :> "*") @@
  ("Access-Control-Allow-Headers" :> "authorization, x-client-info, apikey, content-type")

\* faulty variant of corsStreamingHeaders: the spread of corsHeaders is forgotten
corsStreamingHeadersNoSpread == ("Content-Type" :> "text/event-stream")

\* lines 16-19
corsStreamingHeaders == corsHeaders @@ ("Content-Type" :> "text/event-stream")

\* separator appended to every included section, line 97
Separator == <<"\n", "-", "-", "-", "\n">>

\* ------------------------------------------------------ input domains
Reqs == {"r1"}
Methods == {"GET", "POST", "OPTIONS"}
Queries == StringsUpTo(MaxQueryLen) \cup {NullString}

\* a moderation verdict: the set of category names mapped to true, and flagged,
\* which the moderation service sets when some category is true
CategoryNames == {"hate", "violence"}
Verdicts == {[flagged |-> c # {}, categories |-> c] : c \in SUBSET CategoryNames}
ModerationOutcomes ==
  {[kind |-> "throw"], [kind |-> "ok", results |-> <<>>]}
    \cup {[kind |-> "ok", results |-> <<v>>] : v \in Verdicts}
    \cup {[kind |-> "ok", results |-> <<p[1], p[2]>>] :
            p \in {q \in Verdicts \X Verdicts : q[1] # q[2]}}

\* the embedding client's response object; circular: the object graph of the
\* client's response wrapper has a cycle, which JSON.stringify rejects
EmbeddingVectors == {"vec"}
EmbeddingResponses ==
  [status : {200, 204}, data : {<<>>} \cup {<<[embedding |-> e]>> : e \in EmbeddingVectors},
   detail : {"provider-embedding-detail"}, circular : BOOLEAN]
EmbeddingOutcomes ==
  {[kind |-> "throw"]} \cup {[kind |-> "ok", response |-> e] : e \in EmbeddingResponses}

\* documents the store may return, each standing for a text of the length its
\* token count needs; NullString is a row without content, read as ""
Docs == {<<"a">>, <<" ", "b", "\n">>}
TokenCounts == {700, 800, 1500}
Tokenizers == {t \in [Docs \cup {<<>>} -> TokenCounts \cup {0}] :
                 /\ t[<<>>] = 0
                 /\ \A d \in Docs : t[d] \in TokenCounts}
Sections == [content : Docs \cup {NullString}]
SectionLists == UNION {[1..k -> Sections] : k \in 0..MaxSections}
\* the pair { error, data } the store client resolves with
StoreOutcomes ==
  {[error |-> [message |-> "store-error-detail"], data |-> [null |-> TRUE]],
   [error |-> [null |-> TRUE], data |-> [null |-> TRUE]]}
    \cup {[error |-> [null |-> TRUE], data |-> [rows |-> l]] : l \in SectionLists}

Streams == {"sse-stream"}
CompletionOutcomes ==
  {[kind |-> "throw"]}
    \cup {[kind |-> "ok", response |-> [ok |-> TRUE, body |-> b]] : b \in Streams}
    \cup {[kind |-> "ok", response |-> [ok |-> FALSE, body |-> "error-body"]]}
ErrorBodyOutcomes ==
  {[kind |-> "throw"], [kind |-> "ok", json |-> [message |-> "provider-completion-detail"]]}

\* ------------------------------------------------------------------ state
VARIABLES
  pc,              \* where each invocation of the handler is suspended
  method,          \* req.method
  query,           \* line 46
  sanitizedQuery,  \* line 52
  results,         \* line 54
  embeddingResponse, \* line 60
  embedding,       \* line 71
  matchError,      \* line 72
  pageSections,    \* line 72
  idx,             \* position of the for...of iterator, line 93
  tokenCount,      \* line 89
  contextText,     \* line 90
  completionOptions, \* line 127
  response,        \* line 139
  reply,           \* the Response the handler returns
  caught,          \* line 157: err, what the catch block caught
  calls,           \* requests sent to the collaborators, in order
  log,             \* console.error entries
  tokenizer        \* GPT3Tokenizer.encode(...).text.length, line 95

vars == <<pc, method, query, sanitizedQuery, results, embeddingResponse, embedding,
          matchError, pageSections, idx,
          tokenCount, contextText, completionOptions, response, reply, caught, calls, log,
          tokenizer>>

\* a local not yet assigned, a JavaScript null, and an array value
Undefined == [undefined |-> TRUE]
JsNull == [null |-> TRUE]
Array(rows) == [rows |-> rows]
\* the handler has returned no Response
NoReply == [none |-> TRUE]

Init ==
  /\ pc = [r \in Reqs |-> "idle"]
  /\ method = [r \in Reqs |-> "none"]
  /\ query = [r \in Reqs |-> NullString]
  /\ sanitizedQuery = [r \in Reqs |-> NullString]
  /\ results = [r \in Reqs |-> Undefined]
  /\ embeddingResponse = [r \in Reqs |-> Undefined]
  /\ embedding = [r \in Reqs |-> "none"]
  /\ matchError = [r \in Reqs |-> Undefined]
  /\ pageSections = [r \in Reqs |-> Undefined]
  /\ idx = [r \in Reqs |-> 1]
  /\ tokenCount = [r \in Reqs |-> 0]
  /\ contextText = [r \in Reqs |-> <<>>]
  /\ completionOptions = [r \in Reqs |-> Undefined]
  /\ response = [r \in Reqs |-> Undefined]
  /\ reply = [r \in Reqs |-> NoReply]
  /\ caught = [r \in Reqs |-> Undefined]
  /\ calls = [r \in Reqs |-> <<>>]
  /\ log = [r \in Reqs |-> <<>>]
  /\ tokenizer \in Tokenizers

\* ------------------------------------------------------ error boundary
\* ../_utils/errors.ts: an error carries a message and an optional payload
UserError(message, data) == [kind |-> "UserError", message |-> message, data |-> data]
ApplicationError(message, data) ==
  [kind |-> "ApplicationError", message |-> message, data |-> data]
\* anything else that is thrown: a TypeError of the runtime, a rejected promise
ThrownValue(name) == [kind |-> "Other", message |-> name, data |-> Undefined]

\* new Response(body, { headers }): status defaults to 200; a text body gets
\* a text/plain content type unless the headers name one
NewResponse(body, headers) ==
  [status |-> StatusOK,
   headers |-> IF "text" \in DOMAIN body /\ "Content-Type" \notin DOMAIN headers
               THEN headers @@ ("Content-Type" :> "text/plain;charset=UTF-8")
               ELSE headers,
   body |-> body]

\* Response.json(data, { status, headers })
ResponseJson(data, status, headers) ==
  [status |-> status,
   headers |-> headers @@ ("Content-Type" :> "application/json"),
   body |-> [json |-> data]]

\* JSON.stringify throws a TypeError on a value with a cycle
JsonStringifyThrows(data) == "circular" \in DOMAIN data /\ data.circular

\* lines 159-163: the object literal; a field that is undefined is left out
\* of the serialised body
userErrorBody(err) ==
  IF err.data = Undefined THEN [error |-> err.message]
  ELSE [error |-> err.message, data |-> err.data]

\* lines 178-186
genericErrorBody == [error |-> GenericErrorMessage]

\* faulty variant of catch: the 500 body of an ApplicationError carries err.data
catchLeaking(err) ==
  IF err.kind = "UserError"
  THEN [rejected |-> FALSE, entries |-> <<>>,
        reply |-> ResponseJson(userErrorBody(err), StatusUserError, corsHeaders)]
  ELSE IF err.kind = "ApplicationError"
  THEN IF JsonStringifyThrows(err.data)
       THEN [rejected |-> TRUE, entries |-> <<>>, reply |-> NoReply]
       ELSE [rejected |-> FALSE,
             entries |-> <<[kind |-> "application", message |-> err.message,
                            data |-> err.data]>>,
             reply |-> ResponseJson([error |-> GenericErrorMessage, data |-> err.data],
                                    StatusServerError, corsHeaders)]
  ELSE [rejected |-> FALSE,
        entries |-> <<[kind |-> "unexpected", message |-> err.message,
                       data |-> Undefined]>>,
        reply |-> ResponseJson(genericErrorBody, StatusServerError, corsHeaders)]

\* lines 157-187: what the catch block does with err.  rejected: the catch
\* block itself threw, so the handler's promise rejects and it returns no
\* Response.
catch(err) ==
  IF err.kind = "UserError"
  THEN [rejected |-> FALSE, entries |-> <<>>,
        reply |-> ResponseJson(userErrorBody(err), StatusUserError, corsHeaders)]
  ELSE IF err.kind = "ApplicationError"
  THEN IF JsonStringifyThrows(err.data)
       THEN [rejected |-> TRUE, entries |-> <<>>, reply |-> NoReply]
       ELSE [rejected |-> FALSE,
             entries |-> <<[kind |-> "application", message |-> err.message,
                            data |-> err.data]>>,
             reply |-> ResponseJson(genericErrorBody, StatusServerError, corsHeaders)]
  ELSE [rejected |-> FALSE,
        entries |-> <<[kind |-> "unexpected", message |-> err.message,
                       data |-> Undefined]>>,
        reply |-> ResponseJson(genericErrorBody, StatusServerError, corsHeaders)]

\* the handler throws e at request r
Throw(r, e) ==
  LET c == catch(e) IN
  /\ pc' = [pc EXCEPT ![r] = IF c.rejected THEN "rejected" ELSE "done"]
  /\ caught' = [caught EXCEPT ![r] = e]
  /\ reply' = [reply EXCEPT ![r] = c.reply]
  /\ log' = [log EXCEPT ![r] = @ \o c.entries]

\* the handler returns resp at request r
Return(r, resp) ==
  /\ pc' = [pc EXCEPT ![r] = "done"]
  /\ reply' = [reply EXCEPT ![r] = resp]
  /\ UNCHANGED <<caught, log>>

\* the handler suspends at the await named next
Await(r, next) ==
  /\ pc' = [pc EXCEPT ![r] = next]
  /\ UNCHANGED <<reply, caught, log>>

\* JavaScript runs the code between two awaits to completion: no other
\* invocation runs while one is inside the assembler loop
Scheduled(r) == \A o \in DOMAIN pc \ {r} : pc[o] \notin {"assemble", "prompt"}

\* ------------------------------------------------------------- the handler
\* faulty variant of queryMissing: only the empty string is rejected
queryMissingEmptyOnly(q) == q = <<>>

\* line 47: !query
queryMissing(q) == q = NullString \/ q = <<>>

\* faulty variant of flaggedData: the categories are not those of the verdict
flaggedDataAllCategories(verdict) == [flagged |-> TRUE, categories |-> CategoryNames]

\* line 56: the payload of the "Flagged content" error
flaggedData(verdict) == [flagged |-> TRUE, categories |-> verdict.categories]

\* faulty variant of embeddingFailed: every status below 400 counts as a success
embeddingFailedOnlyErrors(resp) == resp.status >= 400

\* line 66
embeddingFailed(resp) == resp.status # StatusOK

\* faulty variant of iterable: an empty result is treated like a missing one
iterableNonEmpty(sections) == sections # JsNull /\ sections.rows # <<>>

\* line 93: for...of throws a TypeError on a value that is not iterable
iterable(sections) == sections # JsNull

\* faulty variant of assign: tokenCount and contextText are declared at module
\* level, one binding shared by every invocation
assignShared(local, r, value) == [o \in DOMAIN local |-> value]

\* lines 89-90: tokenCount and contextText are declared with let inside the
\* handler, one binding per invocation
assign(local, r, value) == [local EXCEPT ![r] = value]

\* lines 38-53: request gate, normalisation, moderation request
Serve(r, m, q) ==
  /\ pc[r] = "idle"
  /\ Scheduled(r)
  /\ method' = [method EXCEPT ![r] = m]
  /\ IF m = "OPTIONS"
     THEN /\ Return(r, NewResponse([text |-> <<"o", "k">>], corsHeaders))
          /\ UNCHANGED <<query, sanitizedQuery, calls>>
     ELSE /\ query' = [query EXCEPT ![r] = q]
          /\ IF queryMissing(q)
             THEN /\ Throw(r, UserError(MissingQueryMessage, Undefined))
                  /\ UNCHANGED <<sanitizedQuery, calls>>
             ELSE /\ sanitizedQuery' = [sanitizedQuery EXCEPT ![r] = sanitize(q)]
                  /\ calls' = [calls EXCEPT ![r] =
                       Append(@, [svc |-> "moderation", input |-> sanitize(q)])]
                  /\ Await(r, "moderation")
  /\ UNCHANGED <<results, embeddingResponse, embedding, matchError, pageSections, idx,
                 tokenCount, contextText, completionOptions, response, tokenizer>>

\* lines 53-63: the moderation verdict, then the embedding request
ModerationReturns(r, out) ==
  /\ pc[r] = "moderation"
  /\ Scheduled(r)
  /\ IF out.kind = "throw"
     THEN /\ Throw(r, ThrownValue("moderation request failed"))
          /\ UNCHANGED <<results, calls>>
     ELSE IF out.results = <<>>
     THEN /\ Throw(r, ThrownValue("TypeError"))
          /\ UNCHANGED <<results, calls>>
     ELSE /\ results' = [results EXCEPT ![r] = out.results[1]]
          /\ IF out.results[1].flagged
             THEN /\ Throw(r, UserError(FlaggedMessage, flaggedData(out.results[1])))
                  /\ UNCHANGED calls
             ELSE /\ calls' = [calls EXCEPT ![r] =
                       Append(@, [svc |-> "embedding", input |-> sanitizedQuery[r]])]
                  /\ Await(r, "embedding")
  /\ UNCHANGED <<method, query, sanitizedQuery, embeddingResponse, embedding, matchError,
                 pageSections, idx, tokenCount, contextText, completionOptions, response,
                 tokenizer>>

\* lines 60-80: the embedding response, then the similarity search
EmbeddingReturns(r, out) ==
  /\ pc[r] = "embedding"
  /\ Scheduled(r)
  /\ IF out.kind = "throw"
     THEN /\ Throw(r, ThrownValue("embedding request failed"))
          /\ UNCHANGED <<embeddingResponse, embedding, calls>>
     ELSE /\ embeddingResponse' = [embeddingResponse EXCEPT ![r] = out.response]
          /\ IF embeddingFailed(out.response)
             THEN /\ Throw(r, ApplicationError(EmbeddingFailedMessage, out.response))
                  /\ UNCHANGED <<embedding, calls>>
             ELSE IF out.response.data = <<>>
             THEN /\ Throw(r, ThrownValue("TypeError"))
                  /\ UNCHANGED <<embedding, calls>>
             ELSE /\ embedding' = [embedding EXCEPT ![r] = out.response.data[1].embedding]
                  /\ calls' = [calls EXCEPT ![r] =
                       Append(@, [svc |-> "store",
                                  input |-> out.response.data[1].embedding])]
                  /\ Await(r, "store")
  /\ UNCHANGED <<method, query, sanitizedQuery, results, matchError, pageSections, idx,
                 tokenCount, contextText, completionOptions, response, tokenizer>>

\* lines 72-93: the store's answer, then the start of the assembler loop
StoreReturns(r, out) ==
  /\ pc[r] = "store"
  /\ Scheduled(r)
  /\ matchError' = [matchError EXCEPT ![r] = out.error]
  /\ pageSections' = [pageSections EXCEPT ![r] = out.data]
  /\ IF out.error # JsNull
     THEN /\ Throw(r, ApplicationError(MatchFailedMessage, out.error))
          /\ UNCHANGED <<idx, tokenCount, contextText>>
     ELSE /\ tokenCount' = assign(tokenCount, r, 0)
          /\ contextText' = assign(contextText, r, <<>>)
          /\ idx' = [idx EXCEPT ![r] = 1]
          /\ IF iterable(out.data)
             THEN Await(r, "assemble")
             ELSE Throw(r, ThrownValue("TypeError"))
  /\ UNCHANGED <<method, query, sanitizedQuery, results, embeddingResponse, embedding,
                 completionOptions, response, calls, tokenizer>>

\* line 94: pageSection.content as string || ""
currentDocumentOf(pageSection) ==
  IF pageSection.content = NullString THEN <<>> ELSE pageSection.content

\* faulty variant of currentDocumentTextOf: the separator is forgotten
currentDocumentTextNoSeparator(currentDocument) == trim(currentDocument)

\* line 97
currentDocumentTextOf(currentDocument) == trim(currentDocument) \o Separator

\* faulty variant of capReached: the comparison is strict
capReachedStrict(count) == count > TokenCap

\* line 101
capReached(count) == count >= TokenCap

\* lines 93-103: one iteration of the for...of loop, or its exit
AssembleStep(r) ==
  /\ pc[r] = "assemble"
  /\ IF idx[r] > Len(pageSections[r].rows)
     THEN /\ Await(r, "prompt")
          /\ UNCHANGED <<idx, tokenCount, contextText>>
     ELSE LET currentDocument == currentDocumentOf(pageSections[r].rows[idx[r]])
              currentDocumentTokenCount == tokenizer[currentDocument]
              currentDocumentText == currentDocumentTextOf(currentDocument)
          IN /\ tokenCount' = assign(tokenCount, r,
                                      tokenCount[r] + currentDocumentTokenCount)
             /\ IF capReached(tokenCount'[r])
                THEN /\ Await(r, "prompt")
                     /\ UNCHANGED <<idx, contextText>>
                ELSE /\ contextText' = assign(contextText, r,
                                                contextText[r] \o currentDocumentText)
                     /\ idx' = [idx EXCEPT ![r] = @ + 1]
                     /\ Await(r, "assemble")
  /\ UNCHANGED <<method, query, sanitizedQuery, results, embeddingResponse, embedding,
                 matchError, pageSections, completionOptions, response, calls, tokenizer>>

\* lines 106-124: the template and its two substitutions
promptOf(context, question) ==
  [instructions |-> "support representative, documentation only, markdown",
   context |-> context,
   question |-> question]

\* faulty variant of completionOptionsOf: the user message carries the
\* normalised query of the prompt
completionOptionsOfNormalizedUser(prompt, userText) ==
  [messages |-> <<[role |-> "system", content |-> prompt],
                  [role |-> "user", text |-> prompt.question]>>,
   model |-> "OPENAI_COMPLETIONS_MODEL",
   max_tokens |-> 512,
   temperature |-> 0,
   stream |-> TRUE]

\* lines 127-136
completionOptionsOf(prompt, userText) ==
  [messages |-> <<[role |-> "system", content |-> prompt],
                  [role |-> "user", text |-> userText]>>,
   model |-> "OPENAI_COMPLETIONS_MODEL",
   max_tokens |-> 512,
   temperature |-> 0,
   stream |-> TRUE]

\* lines 105-146: prompt, completion options and the POST to the provider
RequestCompletion(r) ==
  /\ pc[r] = "prompt"
  /\ LET prompt == promptOf(contextText[r], sanitizedQuery[r])
         options == completionOptionsOf(prompt, query[r])
     IN /\ completionOptions' = [completionOptions EXCEPT ![r] = options]
        /\ calls' = [calls EXCEPT ![r] = Append(@, [svc |-> "completion", input |-> options])]
  /\ Await(r, "completion")
  /\ UNCHANGED <<method, query, sanitizedQuery, results, embeddingResponse, embedding,
                 matchError, pageSections, idx, tokenCount, contextText, response,
                 tokenizer>>

\* lines 139-155: the provider's response to the POST
CompletionReturns(r, out) ==
  /\ pc[r] = "completion"
  /\ Scheduled(r)
  /\ IF out.kind = "throw"
     THEN /\ Throw(r, ThrownValue("completion request failed"))
          /\ UNCHANGED response
     ELSE /\ response' = [response EXCEPT ![r] = out.response]
          /\ IF out.response.ok
             THEN Return(r, NewResponse([stream |-> out.response.body],
                                        corsStreamingHeaders))
             ELSE Await(r, "errorBody")
  /\ UNCHANGED <<method, query, sanitizedQuery, results, embeddingResponse, embedding,
                 matchError, pageSections, idx, tokenCount, contextText,
                 completionOptions, calls, tokenizer>>

\* lines 150-151: response.json() settles
ErrorBodyReturns(r, out) ==
  /\ pc[r] = "errorBody"
  /\ Scheduled(r)
  /\ IF out.kind = "throw"
     THEN Throw(r, ThrownValue("SyntaxError"))
     ELSE Throw(r, ApplicationError(CompletionFailedMessage, out.json))
  /\ UNCHANGED <<method, query, sanitizedQuery, results, embeddingResponse, embedding,
                 matchError, pageSections, idx, tokenCount, contextText,
                 completionOptions, response, calls, tokenizer>>

Handle(r) ==
  \/ \E m \in Methods, q \in Queries : Serve(r, m, q)
  \/ \E out \in ModerationOutcomes : ModerationReturns(r, out)
  \/ \E out \in EmbeddingOutcomes : EmbeddingReturns(r, out)
  \/ \E out \in StoreOutcomes : StoreReturns(r, out)
  \/ AssembleStep(r)
  \/ RequestCompletion(r)
  \/ \E out \in CompletionOutcomes : CompletionReturns(r, out)
  \/ \E out \in ErrorBodyOutcomes : ErrorBodyReturns(r, out)

Next == \E r \in Reqs : Handle(r)

Spec == Init /\ [][Next]_vars

TypeOK ==
  /\ \A r \in Reqs : pc[r] \in {"idle", "moderation", "embedding", "store", "assemble",
                                "prompt", "completion", "errorBody", "done", "rejected"}
  /\ \A r \in Reqs : tokenCount[r] \in Nat
  /\ \A r \in Reqs : pc[r] = "assemble" => idx[r] \in 1..(Len(pageSections[r].rows) + 1)

\* ================================================================ claims
Requests == DOMAIN pc
Replied(r) == pc[r] = "done"
IsJsonReply(r) == Replied(r) /\ "json" \in DOMAIN reply[r].body
AllowsAnyOrigin(resp) ==
  /\ "Access-Control-Allow-Origin" \in DOMAIN resp.headers
  /\ resp.headers["Access-Control-Allow-Origin"] = "*"
IsGenericServerError(r) ==
  /\ Replied(r)
  /\ reply[r].status = 500
  /\ reply[r].body = [json |-> [error |-> "There was an error processing your request"]]

\* C1: a non-OPTIONS request whose URL has no query parameter is answered with
\* status 400 and a JSON body whose error field is "Missing query in request data".
C1_MissingQueryIs400 ==
  \A r \in Requests :
    (method[r] \notin {"none", "OPTIONS"} /\ query[r] = NullString) =>
      /\ IsJsonReply(r)
      /\ reply[r].status = 400
      /\ reply[r].body.json.error = "Missing query in request data"

C1_Witness ==
  \E r \in Requests : method[r] = "GET" /\ query[r] = NullString /\ Replied(r)

\* C2: when the first moderation result is flagged, the reply is status 400 with
\* data.flagged = true and data.categories equal to that result's categories.
C2_FlaggedIs400 ==
  \A r \in Requests :
    (results[r] # Undefined /\ results[r].flagged) =>
      /\ IsJsonReply(r)
      /\ reply[r].status = 400
      /\ "data" \in DOMAIN reply[r].body.json
      /\ reply[r].body.json.data.flagged = TRUE
      /\ reply[r].body.json.data.categories = results[r].categories

C2_Witness ==
  \E r \in Requests :
    /\ results[r] # Undefined
    /\ results[r].flagged
    /\ results[r].categories = {"violence"}
    /\ Replied(r)

\* cumulative token count of the first k sections
RECURSIVE CumulativeTokens(_, _)
CumulativeTokens(rows, k) ==
  IF k = 0 THEN 0
  ELSE CumulativeTokens(rows, k - 1)
         + tokenizer[IF rows[k].content = NullString THEN <<>> ELSE rows[k].content]

\* length of the longest prefix whose cumulative token count stays under 1500
LongestPrefixUnderCap(rows) ==
  CHOOSE k \in 0..Len(rows) :
    /\ \A j \in 1..k : CumulativeTokens(rows, j) < 1500
    /\ k < Len(rows) => CumulativeTokens(rows, k + 1) >= 1500

RECURSIVE ConcatSections(_, _)
ConcatSections(rows, k) ==
  IF k = 0 THEN <<>>
  ELSE ConcatSections(rows, k - 1)
         \o trim(IF rows[k].content = NullString THEN <<>> ELSE rows[k].content)
         \o <<"\n", "-", "-", "-", "\n">>

AssemblyFinished(r) ==
  pc[r] = "prompt" \/ completionOptions[r] # Undefined

\* C3: the assembled context is the concatenation, in the returned order, of
\* exactly the longest prefix of sections whose cumulative token count stays
\* under 1500, each trimmed and followed by the separator; the first section
\* that brings the total to 1500 or more, and every later one, is left out.
C3_ContextIsLongestPrefix ==
  \A r \in Requests :
    AssemblyFinished(r) =>
      contextText[r] =
        ConcatSections(pageSections[r].rows, LongestPrefixUnderCap(pageSections[r].rows))

C3_Witness ==
  \E r \in Requests :
    /\ AssemblyFinished(r)
    /\ Len(pageSections[r].rows) = 3
    /\ LongestPrefixUnderCap(pageSections[r].rows) = 1
    /\ CumulativeTokens(pageSections[r].rows, 2) = 1500

\* C4: an embedding response with a status other than 200 is answered with
\* status 500 and exactly the generic body, whatever the provider returned.
C4_EmbeddingFailureIsGeneric500 ==
  \A r \in Requests :
    (embeddingResponse[r] # Undefined /\ embeddingResponse[r].status # 200) =>
      IsGenericServerError(r)

\* C5: every Response the handler produces carries
\* Access-Control-Allow-Origin: *.
C5_EveryReplyHasCors ==
  \A r \in Requests : reply[r] # NoReply => AllowsAnyOrigin(reply[r])

C5_Witness ==
  \E r \in Requests :
    /\ Replied(r)
    /\ reply[r].status = 200
    /\ "stream" \in DOMAIN reply[r].body
    /\ AllowsAnyOrigin(reply[r])

\* C6: an OPTIONS request is answered at once with status 200 and an empty
\* body, and no external call is made.
C6_OptionsIsEmpty200 ==
  \A r \in Requests :
    method[r] = "OPTIONS" =>
      /\ Replied(r)
      /\ reply[r].status = 200
      /\ reply[r].body = [text |-> <<>>]
      /\ calls[r] = <<>>

\* s is q with its surrounding whitespace removed and every remaining newline
\* replaced by a space
IsNormalizationOf(s, q) ==
  \E i \in 1..(Len(q) + 1), j \in 0..Len(q) :
    /\ \A k \in 1..(i - 1) : q[k] \in {" ", "\n"}
    /\ \A k \in (j + 1)..Len(q) : q[k] \in {" ", "\n"}
    /\ IF i <= j THEN q[i] \notin {" ", "\n"} /\ q[j] \notin {" ", "\n"} ELSE j = i - 1
    /\ Len(s) = j - i + 1
    /\ \A k \in 1..Len(s) : s[k] = IF q[i + k - 1] = "\n" THEN " " ELSE q[i + k - 1]

SystemPrompt(r) == completionOptions[r].messages[1].content

\* C7 as stated: the system prompt embeds the query exactly as received.
C7_PromptEmbedsRawQuery ==
  \A r \in Requests :
    completionOptions[r] # Undefined => SystemPrompt(r).question = query[r]

\* C7 as amended: the system prompt embeds the normalized query, the query
\* trimmed and with every newline replaced by a space.
C7_PromptEmbedsNormalizedQuery ==
  \A r \in Requests :
    completionOptions[r] # Undefined =>
      IsNormalizationOf(SystemPrompt(r).question, query[r])

C7_Witness ==
  \E r \in Requests :
    /\ completionOptions[r] # Undefined
    /\ query[r] = <<"a", "\n", "a">>
    /\ SystemPrompt(r).question = <<"a", " ", "a">>

StreamReply(r) ==
  /\ Replied(r)
  /\ reply[r].status = 200
  /\ "Content-Type" \in DOMAIN reply[r].headers
  /\ reply[r].headers["Content-Type"] = "text/event-stream"
  /\ response[r] # Undefined
  /\ reply[r].body = [stream |-> response[r].body]

AllStagesSucceeded(r) ==
  /\ query[r] # NullString
  /\ results[r] # Undefined /\ ~results[r].flagged
  /\ embeddingResponse[r] # Undefined /\ embeddingResponse[r].status = 200
  /\ matchError[r] = JsNull
  /\ response[r] # Undefined /\ response[r].ok

\* C8: the reply is status 200, text/event-stream, with the provider's stream as
\* its body, if and only if the query is present, moderation is unflagged, the
\* embedding status is 200, the store reported no error and the completion
\* status is OK; no other reply carries a stream.
C8_StreamIffAllStagesSucceeded ==
  \A r \in Requests :
    /\ StreamReply(r) <=> AllStagesSucceeded(r)
    /\ (Replied(r) /\ ~StreamReply(r)) =>
         /\ "stream" \notin DOMAIN reply[r].body
         /\ reply[r].status \in {400, 500} \/ method[r] = "OPTIONS"

C8_Witness ==
  \E r \in Requests : StreamReply(r) /\ AllStagesSucceeded(r) /\ contextText[r] # <<>>

CompletionRequested(r) ==
  /\ completionOptions[r] # Undefined
  /\ calls[r] # <<>>
  /\ calls[r][Len(calls[r])] = [svc |-> "completion", input |-> completionOptions[r]]

\* C9: when the store returns zero sections and no error, the context is the
\* empty string, the prompt is built with it and the completion request is
\* issued; the request does not end before that.
C9_EmptyResultStillCompletes ==
  \A r \in Requests :
    (matchError[r] = JsNull /\ pageSections[r] = Array(<<>>)) =>
      /\ contextText[r] = <<>>
      /\ \/ pc[r] \in {"assemble", "prompt"}
         \/ CompletionRequested(r) /\ SystemPrompt(r).context = <<>>

C9_Witness ==
  \E r \in Requests :
    /\ matchError[r] = JsNull
    /\ pageSections[r] = Array(<<>>)
    /\ pc[r] = "completion"
    /\ CompletionRequested(r)

StoreFailed(r) == matchError[r] \notin {Undefined, JsNull}
CompletionFailed(r) == response[r] # Undefined /\ ~response[r].ok

\* C10: a store error and a non-OK completion status each end in status 500
\* with the generic body and no data field.
C10_StoreAndCompletionFailuresAreGeneric500 ==
  \A r \in Requests :
    /\ StoreFailed(r) => IsGenericServerError(r)
    /\ CompletionFailed(r) => pc[r] = "errorBody" \/ IsGenericServerError(r)

C10_Witness ==
  \E r \in Requests :
    /\ CompletionFailed(r)
    /\ IsGenericServerError(r)
    /\ log[r] # <<>>
    /\ log[r][Len(log[r])].kind = "application"

\* C11: every query text handed to the moderation or embedding service is
\* non-empty after trimming; a request whose query is empty or only whitespace
\* reaches neither service.
C11_ExternalQueryIsNonEmpty ==
  \A r \in Requests :
    /\ \A i \in 1..Len(calls[r]) :
         calls[r][i].svc \in {"moderation", "embedding"} => trim(calls[r][i].input) # <<>>
    /\ (query[r] # NullString /\ trim(query[r]) = <<>>) => calls[r] = <<>>

\* ------------------------------------------------- normalisation on its own
\* queries over letters, spaces and newlines
NormalizeQueries == UNION {[1..k -> {"a", " ", "\n"}] : k \in 0..MaxQueryLen}

NormalizeNext == \E r \in Reqs, q \in NormalizeQueries : Serve(r, "GET", q)

NormalizeSpec == Init /\ [][NormalizeNext]_vars

\* C12: normalisation is idempotent, normalize(normalize(s)) = normalize(s),
\* and the normalised text contains no newline.
C12_NormalizationIdempotent ==
  \A r \in Requests :
    sanitizedQuery[r] # NullString =>
      /\ sanitize(sanitizedQuery[r]) = sanitizedQuery[r]
      /\ \A i \in 1..Len(sanitizedQuery[r]) : sanitizedQuery[r][i] # "\n"

C12_Witness ==
  \E r \in Requests :
    /\ query[r] = <<" ", "\n", "a">>
    /\ sanitizedQuery[r] = <<"a">>
    /\ pc[r] = "moderation"

CallOrder == <<"moderation", "embedding", "store", "completion">>
ModerationPassed(r) == results[r] # Undefined /\ ~results[r].flagged
EmbeddingSucceeded(r) ==
  /\ embeddingResponse[r] # Undefined
  /\ embeddingResponse[r].status = 200
  /\ embeddingResponse[r].data # <<>>
StoreSucceeded(r) == matchError[r] = JsNull /\ pageSections[r] \notin {Undefined, JsNull}

\* C13: within one request the external calls happen at most once each and in
\* the order moderation, embedding, store, completion; a call is made only if
\* every earlier stage succeeded, so a flagged verdict, an embedding failure
\* and a store error are each followed by no further call.
C13_CallsInOrderAfterSuccess ==
  \A r \in Requests :
    /\ Len(calls[r]) <= 4
    /\ \A i \in 1..Len(calls[r]) : calls[r][i].svc = CallOrder[i]
    /\ Len(calls[r]) >= 2 => ModerationPassed(r)
    /\ Len(calls[r]) >= 3 => EmbeddingSucceeded(r)
    /\ Len(calls[r]) >= 4 => StoreSucceeded(r)
    /\ (results[r] # Undefined /\ results[r].flagged) => Len(calls[r]) = 1
    /\ (embeddingResponse[r] # Undefined /\ embeddingResponse[r].status # 200) =>
         Len(calls[r]) = 2
    /\ StoreFailed(r) => Len(calls[r]) = 3

C13_Witness ==
  \E r \in Requests : Len(calls[r]) = 4 /\ Replied(r) /\ StreamReply(r)

\* C14: the error boundary logs by error kind: a UserError leaves no log entry
\* and its 400 body carries the error's message and data; an ApplicationError
\* and any other error each leave exactly one log entry and end in the 500
\* reply, whose body carries neither message nor data.
C14_LogByErrorKind ==
  \A r \in Requests :
    caught[r] # Undefined =>
      IF caught[r].kind = "UserError"
      THEN /\ log[r] = <<>>
           /\ IsJsonReply(r)
           /\ reply[r].status = 400
           /\ reply[r].body.json.error = caught[r].message
           /\ caught[r].data # Undefined =>
                /\ "data" \in DOMAIN reply[r].body.json
                /\ reply[r].body.json.data = caught[r].data
      ELSE /\ Len(log[r]) = 1
           /\ IsGenericServerError(r)

UserMessage(r) == completionOptions[r].messages[2]

\* C15: the moderation call and the embedding call receive the same text, the
\* normalised query; the user message of the completion request carries the
\* query exactly as received.
C15_NormalizedToServicesRawToUser ==
  \A r \in Requests :
    /\ \A i \in 1..Len(calls[r]) :
         calls[r][i].svc \in {"moderation", "embedding"} =>
           /\ IsNormalizationOf(calls[r][i].input, query[r])
           /\ calls[r][i].input = calls[r][1].input
    /\ completionOptions[r] # Undefined => UserMessage(r).text = query[r]

C15_Witness ==
  \E r \in Requests :
    /\ completionOptions[r] # Undefined
    /\ query[r] = <<"\n", "a", "\n">>
    /\ Len(calls[r]) = 4
    /\ calls[r][2].input = <<"a">>
    /\ UserMessage(r).text = <<"\n", "a", "\n">>

IsPrefix(a, b) == Len(a) <= Len(b) /\ SubSeq(b, 1, Len(a)) = a

\* C16: in every step the running token count does not decrease and the
\* context only grows by appending; a step of the assembler loop ends the
\* assembly exactly when the sections are exhausted or the running count has
\* reached 1500.
C16_BudgetMonotone ==
  [][\A r \in Requests :
       /\ tokenCount'[r] >= tokenCount[r]
       /\ IsPrefix(contextText[r], contextText'[r])
       /\ pc[r] = "assemble" =>
            /\ pc'[r] \in {"assemble", "prompt"}
            /\ pc'[r] = "prompt" <=>
                 \/ idx[r] > Len(pageSections[r].rows)
                 \/ tokenCount'[r] >= 1500]_vars

C16_Witness ==
  \E r \in Requests :
    /\ pc[r] = "assemble"
    /\ idx[r] = 3
    /\ tokenCount[r] = 1400
    /\ contextText[r] # <<>>

\* ------------------------------------------------------ concurrent requests
\* two invocations of the handler in flight, interleaved at their awaits
ConcMaxSections == 2
ConcReqs == {"r1", "r2"}
ConcQueries == {NullString, <<"a">>, <<"\n", "a">>}
ConcModerationOutcomes ==
  {[kind |-> "ok", results |-> <<[flagged |-> c # {}, categories |-> c]>>] :
     c \in {{}, {"hate"}}}
ConcEmbeddingOutcomes ==
  {[kind |-> "ok",
    response |-> [status |-> st, data |-> <<[embedding |-> "vec"]>>,
                  detail |-> "provider-embedding-detail", circular |-> FALSE]] :
     st \in {200, 204}}
ConcSectionLists == UNION {[1..k -> [content : Docs]] : k \in 0..ConcMaxSections}
ConcStoreOutcomes ==
  {[error |-> [message |-> "store-error-detail"], data |-> [null |-> TRUE]]}
    \cup {[error |-> [null |-> TRUE], data |-> [rows |-> l]] : l \in ConcSectionLists}
ConcCompletionOutcomes ==
  {[kind |-> "ok", response |-> [ok |-> TRUE, body |-> "sse-stream"]],
   [kind |-> "ok", response |-> [ok |-> FALSE, body |-> "error-body"]]}
ConcErrorBodyOutcomes ==
  {[kind |-> "ok", json |-> [message |-> "provider-completion-detail"]]}

ConcInit ==
  /\ pc = [r \in ConcReqs |-> "idle"]
  /\ method = [r \in ConcReqs |-> "none"]
  /\ query = [r \in ConcReqs |-> NullString]
  /\ sanitizedQuery = [r \in ConcReqs |-> NullString]
  /\ results = [r \in ConcReqs |-> Undefined]
  /\ embeddingResponse = [r \in ConcReqs |-> Undefined]
  /\ embedding = [r \in ConcReqs |-> "none"]
  /\ matchError = [r \in ConcReqs |-> Undefined]
  /\ pageSections = [r \in ConcReqs |-> Undefined]
  /\ idx = [r \in ConcReqs |-> 1]
  /\ tokenCount = [r \in ConcReqs |-> 0]
  /\ contextText = [r \in ConcReqs |-> <<>>]
  /\ completionOptions = [r \in ConcReqs |-> Undefined]
  /\ response = [r \in ConcReqs |-> Undefined]
  /\ reply = [r \in ConcReqs |-> NoReply]
  /\ caught = [r \in ConcReqs |-> Undefined]
  /\ calls = [r \in ConcReqs |-> <<>>]
  /\ log = [r \in ConcReqs |-> <<>>]
  /\ tokenizer \in Tokenizers

ConcHandle(r) ==
  \/ \E q \in ConcQueries : Serve(r, "GET", q)
  \/ \E out \in ConcModerationOutcomes : ModerationReturns(r, out)
  \/ \E out \in ConcEmbeddingOutcomes : EmbeddingReturns(r, out)
  \/ \E out \in ConcStoreOutcomes : StoreReturns(r, out)
  \/ AssembleStep(r)
  \/ RequestCompletion(r)
  \/ \E out \in ConcCompletionOutcomes : CompletionReturns(r, out)
  \/ \E out \in ConcErrorBodyOutcomes : ErrorBodyReturns(r, out)

ConcNext == \E r \in ConcReqs : ConcHandle(r)

ConcSpec == ConcInit /\ [][ConcNext]_vars

\* everything one invocation holds
Locals(r) ==
  <<pc[r], method[r], query[r], sanitizedQuery[r], results[r], embeddingResponse[r],
    embedding[r], matchError[r], pageSections[r], idx[r], tokenCount[r], contextText[r],
    completionOptions[r], response[r], reply[r], caught[r], calls[r], log[r]>>

\* number of sections the loop has gone through, the one that reached the cap
\* included
SectionsCounted(r) ==
  IF pc[r] = "assemble" \/ idx[r] > Len(pageSections[r].rows) THEN idx[r] - 1 ELSE idx[r]

\* the token count, the context and the reply of r as its own query and the
\* results returned to it determine them
OwnOutcome(r) ==
  /\ StoreSucceeded(r) =>
       /\ tokenCount[r] = CumulativeTokens(pageSections[r].rows, SectionsCounted(r))
       /\ contextText[r] = ConcatSections(pageSections[r].rows, idx[r] - 1)
  /\ AssemblyFinished(r) =>
       contextText[r] =
         ConcatSections(pageSections[r].rows, LongestPrefixUnderCap(pageSections[r].rows))
  /\ completionOptions[r] # Undefined =>
       /\ SystemPrompt(r).context = contextText[r]
       /\ IsNormalizationOf(SystemPrompt(r).question, query[r])
  /\ Replied(r) =>
       IF caught[r] = Undefined
       THEN StreamReply(r) /\ AllStagesSucceeded(r)
       ELSE IF caught[r].kind = "UserError"
       THEN /\ reply[r].status = 400
            /\ reply[r].body.json.error = caught[r].message
            /\ queryMissing(query[r]) \/ results[r].flagged
       ELSE IsGenericServerError(r)

\* C17: concurrent requests are isolated: under every interleaving of two
\* requests at their awaits, a step changes the locals of one request only, and
\* each request's token count, context and reply are those its own query and
\* the results returned to it determine.
C17_RequestsIsolated ==
  /\ [](\A r \in Requests : OwnOutcome(r))
  /\ [][\A r \in Requests :
          Locals(r)' # Locals(r) => \A o \in Requests \ {r} : Locals(o)' = Locals(o)]_vars

C17_Witness ==
  /\ pc["r1"] = "completion"
  /\ pc["r2"] = "completion"
  /\ tokenCount["r1"] = 1500
  /\ tokenCount["r2"] = 700
  /\ contextText["r1"] = <<>>
  /\ contextText["r2"] # <<>>

\* C18: no failure escapes the error boundary: whatever the collaborators
\* return, the handler ends with exactly one Response, of status 200, 400 or
\* 500, also when the failure's diagnostic data cannot be serialised.
C18_NoFailureEscapes ==
  \A r \in Requests :
    /\ pc[r] # "rejected"
    /\ pc[r] = "done" => reply[r] # NoReply /\ reply[r].status \in {200, 400, 500}
    /\ pc[r] # "done" => reply[r] = NoReply

\* ------------------------------------------- assembly of markdown sections
\* documents of which one holds a horizontal rule, a line of three dashes
RuleDocs == {<<"a">>, <<"a", "\n", "-", "-", "-", "\n", "b">>}
RuleTokenizers == {t \in [RuleDocs \cup {<<>>} -> TokenCounts \cup {0}] :
                     /\ t[<<>>] = 0
                     /\ \A d \in RuleDocs : t[d] \in TokenCounts}
RuleSectionLists ==
  UNION {[1..k -> [content : RuleDocs \cup {NullString}]] : k \in 0..MaxSections}

AssemblyInit ==
  /\ pc = [r \in Reqs |-> "idle"]
  /\ method = [r \in Reqs |-> "none"]
  /\ query = [r \in Reqs |-> NullString]
  /\ sanitizedQuery = [r \in Reqs |-> NullString]
  /\ results = [r \in Reqs |-> Undefined]
  /\ embeddingResponse = [r \in Reqs |-> Undefined]
  /\ embedding = [r \in Reqs |-> "none"]
  /\ matchError = [r \in Reqs |-> Undefined]
  /\ pageSections = [r \in Reqs |-> Undefined]
  /\ idx = [r \in Reqs |-> 1]
  /\ tokenCount = [r \in Reqs |-> 0]
  /\ contextText = [r \in Reqs |-> <<>>]
  /\ completionOptions = [r \in Reqs |-> Undefined]
  /\ response = [r \in Reqs |-> Undefined]
  /\ reply = [r \in Reqs |-> NoReply]
  /\ caught = [r \in Reqs |-> Undefined]
  /\ calls = [r \in Reqs |-> <<>>]
  /\ log = [r \in Reqs |-> <<>>]
  /\ tokenizer \in RuleTokenizers

AssemblyHandle(r) ==
  \/ Serve(r, "GET", <<"a">>)
  \/ ModerationReturns(r, [kind |-> "ok",
                           results |-> <<[flagged |-> FALSE, categories |-> {}]>>])
  \/ EmbeddingReturns(r, [kind |-> "ok",
                          response |-> [status |-> 200, data |-> <<[embedding |-> "vec"]>>,
                                        detail |-> "provider-embedding-detail",
                                        circular |-> FALSE]])
  \/ \E l \in RuleSectionLists :
       StoreReturns(r, [error |-> [null |-> TRUE], data |-> [rows |-> l]])
  \/ AssembleStep(r)
  \/ RequestCompletion(r)

AssemblyNext == \E r \in Reqs : AssemblyHandle(r)

AssemblySpec == AssemblyInit /\ [][AssemblyNext]_vars

\* number of places of the text at which the separator line "\n---\n" occurs
SeparatorCount(text) ==
  Cardinality({i \in 1..(Len(text) - 4) :
                 SubSeq(text, i, i + 4) = <<"\n", "-", "-", "-", "\n">>})

\* sections appended to the context so far
IncludedSections(r) == idx[r] - 1

HasDashes(pageSection) ==
  /\ pageSection.content # NullString
  /\ \E i \in 1..Len(pageSection.content) : pageSection.content[i] = "-"

====
